---- MODULE Spec2Model ----
(***************************************************************************)
(* Pickleball open-play scheduler (src/app.py): the rotation engine.       *)
(* State is the `data` dictionary (players, queue, courts, streaks,        *)
(* history); the operations are the functions initialize_queue,            *)
(* assign_court, assign_all_courts, process_court_result and the           *)
(* "Add / Update Players" and "Submit All Court Winners" handlers.         *)
(***************************************************************************)
EXTENDS Integers, Sequences, FiniteSets, TLC

\* ------------------------------------------------------------------ bounds
NumPlayers == 8      \* size of the roster typed into "Add / Update Players"
MaxHistory == 3      \* cap on the number of resolved matches explored
MaxShuffles == 1     \* cap on the number of "Initialize Queue" clicks explored

\* --------------------------------------------------------------- constants
MAX_STREAK == 2
NumCourts  == 2      \* config["num_courts"], a value of the "Number of Courts" slider

Pool     == 1..NumPlayers
Roster   == [k \in 1..NumPlayers |-> k]
CourtIdx == 0..(NumCourts - 1)
Teams    == {"Team 1", "Team 2"}
Radio    == {"None", "Team 1", "Team 2"}

VARIABLES players, queue, courts, streaks, history, last, shuffles

vars == <<players, queue, courts, streaks, history, last, shuffles>>

\* the `data` dictionary as one value
Data == [players |-> players, queue |-> queue, courts |-> courts,
         streaks |-> streaks, history |-> history]

\* ------------------------------------------------------------ list helpers
Range(s) == {s[k] : k \in 1..Len(s)}

\* list.remove(x): drop the first occurrence of x
RECURSIVE Remove(_, _)
Remove(s, x) ==
    IF s = <<>> THEN <<>>
    ELSE IF Head(s) = x THEN Tail(s)
    ELSE <<Head(s)>> \o Remove(Tail(s), x)

\* [p for p in s if keep(p)]
RECURSIVE FilterStreak(_, _)
FilterStreak(s, str) ==
    IF s = <<>> THEN <<>>
    ELSE IF str[Head(s)] < MAX_STREAK
         THEN <<Head(s)>> \o FilterStreak(Tail(s), str)
         ELSE FilterStreak(Tail(s), str)

\* number of occurrences of x in s
Occ(s, x) == Cardinality({k \in 1..Len(s) : s[k] = x})

\* ------------------------------------------------- count_repeat_matches
\* list(combinations(l, 2)) as the set of its (ordered) pairs
\* positions (a, b), a < b: one per element of list(combinations(l, 2))
PairPositions(l) == {q \in (1..Len(l)) \X (1..Len(l)) : q[1] < q[2]}

\* list(combinations(l, 2)) as the set of its (ordered) pairs
Combinations2(l) == {<<l[q[1]], l[q[2]]>> : q \in PairPositions(l)}

\* the test of line 40 without its reversed-pair half
MatchRepeats_Ordered(l, match) ==
    LET past == Combinations2(match.winners \o match.losers)
    IN  Cardinality({q \in PairPositions(l) : <<l[q[1]], l[q[2]]>> \in past})

MatchRepeats(l, match) ==
    LET past == Combinations2(match.winners \o match.losers)
    IN  Cardinality({q \in PairPositions(l) :
                        \/ <<l[q[1]], l[q[2]]>> \in past
                        \/ <<l[q[2]], l[q[1]]>> \in past})

RECURSIVE count_repeat_matches(_, _)
count_repeat_matches(l, h) ==
    IF h = <<>> THEN 0
    ELSE MatchRepeats(l, Head(h)) + count_repeat_matches(l, Tail(h))

\* ----------------------------------------------------- candidate selection
\* the inner `for candidate in queue` scan with its strict `<` test
\* the scan with `<=` in place of `<`
RECURSIVE ScanQueue_LastWins(_, _, _, _, _, _)
ScanQueue_LastWins(staying, q, h, k, best_candidate, min_repeats) ==
    IF k > Len(q) THEN best_candidate
    ELSE LET repeats == count_repeat_matches(staying \o <<q[k]>>, h)
         IN  IF repeats <= min_repeats
             THEN ScanQueue_LastWins(staying, q, h, k + 1, q[k], repeats)
             ELSE ScanQueue_LastWins(staying, q, h, k + 1, best_candidate, min_repeats)

RECURSIVE ScanQueue(_, _, _, _, _, _)
ScanQueue(staying, q, h, k, best_candidate, min_repeats) ==
    IF k > Len(q) THEN best_candidate
    ELSE LET repeats == count_repeat_matches(staying \o <<q[k]>>, h)
         IN  IF repeats < min_repeats
             THEN ScanQueue(staying, q, h, k + 1, q[k], repeats)
             ELSE ScanQueue(staying, q, h, k + 1, best_candidate, min_repeats)

BestCandidate(staying, q, h) ==
    ScanQueue(staying, q, h, 1, q[1],
              count_repeat_matches(staying \o <<q[1]>>, h))

\* the loop stopping one player early
RECURSIVE FillCourt_StopsAtThree(_, _, _)
FillCourt_StopsAtThree(staying, q, h) ==
    IF Len(staying) < 3 /\ q # <<>>
    THEN LET best == BestCandidate(staying, q, h)
         IN  FillCourt_StopsAtThree(Append(staying, best), Remove(q, best), h)
    ELSE [court |-> staying, queue |-> q]

\* the `while len(staying) < 4 and data["queue"]` loop
RECURSIVE FillCourt(_, _, _)
FillCourt(staying, q, h) ==
    IF Len(staying) < 4 /\ q # <<>>
    THEN LET best == BestCandidate(staying, q, h)
         IN  FillCourt(Append(staying, best), Remove(q, best), h)
    ELSE [court |-> staying, queue |-> q]

\* ------------------------------------------------------------ assign_court
assign_court(d, court_index) ==
    LET staying == FilterStreak(d.courts[court_index], d.streaks)
        f       == FillCourt(staying, d.queue, d.history)
    IN  [d EXCEPT !.queue = f.queue, !.courts[court_index] = f.court]

\* the courts taken from the highest index down
RECURSIVE AssignFrom_Descending(_, _)
AssignFrom_Descending(d, i) ==
    IF i >= NumCourts THEN d
    ELSE AssignFrom_Descending(assign_court(d, NumCourts - 1 - i), i + 1)

RECURSIVE AssignFrom(_, _)
AssignFrom(d, i) ==
    IF i >= NumCourts THEN d ELSE AssignFrom(assign_court(d, i), i + 1)

assign_all_courts(d) == AssignFrom(d, 0)

\* ---------------------------------------------------- process_court_result
\* the winners loop putting each staying winner in front of the others
RECURSIVE HandleWinners_Prepend(_, _)
HandleWinners_Prepend(ws, acc) ==
    IF ws = <<>> THEN acc
    ELSE LET w      == Head(ws)
             streak == acc.streaks[w]
         IN  IF streak < MAX_STREAK
             THEN HandleWinners_Prepend(Tail(ws),
                     [acc EXCEPT !.new_court = <<w>> \o @,
                                 !.streaks[w] = streak + 1])
             ELSE HandleWinners_Prepend(Tail(ws),
                     [acc EXCEPT !.streaks[w] = 0,
                                 !.queue = Append(@, w)])

\* `for w in winners`: state threaded is (new_court, streaks, queue)
RECURSIVE HandleWinners(_, _)
HandleWinners(ws, acc) ==
    IF ws = <<>> THEN acc
    ELSE LET w      == Head(ws)
             streak == acc.streaks[w]
         IN  IF streak < MAX_STREAK
             THEN HandleWinners(Tail(ws),
                     [acc EXCEPT !.new_court = Append(@, w),
                                 !.streaks[w] = streak + 1])
             ELSE HandleWinners(Tail(ws),
                     [acc EXCEPT !.streaks[w] = 0,
                                 !.queue = Append(@, w)])

\* the losers reset but not queued
RECURSIVE HandleLosers_NotQueued(_, _)
HandleLosers_NotQueued(ls, acc) ==
    IF ls = <<>> THEN acc
    ELSE HandleLosers_NotQueued(Tail(ls), [acc EXCEPT !.streaks[Head(ls)] = 0])

\* the losers put at the head of the queue
RECURSIVE HandleLosers_Front(_, _)
HandleLosers_Front(ls, acc) ==
    IF ls = <<>> THEN acc
    ELSE HandleLosers_Front(Tail(ls),
            [acc EXCEPT !.streaks[Head(ls)] = 0,
                        !.queue = <<Head(ls)>> \o @])

\* `for l in losers`
RECURSIVE HandleLosers(_, _)
HandleLosers(ls, acc) ==
    IF ls = <<>> THEN acc
    ELSE HandleLosers(Tail(ls),
            [acc EXCEPT !.streaks[Head(ls)] = 0,
                        !.queue = Append(@, Head(ls))])

\* Python slices court[:2] and court[2:]
FirstTwo(court) == SubSeq(court, 1, IF Len(court) < 2 THEN Len(court) ELSE 2)

FromThird(court) == SubSeq(court, 3, Len(court))

WinnersOf(court, winning_team) ==
    IF winning_team = "Team 1" THEN FirstTwo(court) ELSE FromThird(court)

LosersOf(court, winning_team) ==
    IF winning_team = "Team 1" THEN FromThird(court) ELSE FirstTwo(court)

\* the length test dropped
Rejected_Never(d, court_index) == Len(d.courts[court_index]) < 0

Rejected(d, court_index) == Len(d.courts[court_index]) < 4

\* the record with the two teams exchanged
MatchRecord_Swapped(court_index, winners, losers) ==
    [court |-> court_index + 1, winners |-> losers, losers |-> winners]

MatchRecord(court_index, winners, losers) ==
    [court |-> court_index + 1, winners |-> winners, losers |-> losers]

\* the record appended before the court is rebuilt
process_court_result_LogFirst(d, court_index, winning_team) ==
    LET court == d.courts[court_index]
    IN  IF Rejected(d, court_index) THEN d
        ELSE
        LET winners == WinnersOf(court, winning_team)
            losers  == LosersOf(court, winning_team)
            logged  == Append(d.history, MatchRecord(court_index, winners, losers))
            a0 == [new_court |-> <<>>, streaks |-> d.streaks, queue |-> d.queue]
            a1 == HandleWinners(winners, a0)
            a2 == HandleLosers(losers, a1)
            f  == FillCourt(a2.new_court, a2.queue, logged)
        IN  [d EXCEPT !.streaks = a2.streaks,
                      !.queue   = f.queue,
                      !.courts[court_index] = f.court,
                      !.history = logged]

process_court_result(d, court_index, winning_team) ==
    LET court == d.courts[court_index]
    IN  IF Rejected(d, court_index) THEN d
        ELSE
        LET winners == WinnersOf(court, winning_team)
            losers  == LosersOf(court, winning_team)
            a0 == [new_court |-> <<>>, streaks |-> d.streaks, queue |-> d.queue]
            a1 == HandleWinners(winners, a0)
            a2 == HandleLosers(losers, a1)
            f  == FillCourt(a2.new_court, a2.queue, d.history)
        IN  [d EXCEPT !.streaks = a2.streaks,
                      !.queue   = f.queue,
                      !.courts[court_index] = f.court,
                      !.history = Append(@, MatchRecord(court_index, winners, losers))]

\* "Submit All Court Winners": courts in index order, only Team 1 / Team 2
\* the courts submitted from the highest index down
RECURSIVE SubmitFrom_Descending(_, _, _)
SubmitFrom_Descending(d, sel, i) ==
    IF i >= NumCourts THEN d
    ELSE IF sel[NumCourts - 1 - i] \in {"Team 1", "Team 2"}
         THEN SubmitFrom_Descending(
                 process_court_result(d, NumCourts - 1 - i, sel[NumCourts - 1 - i]),
                 sel, i + 1)
         ELSE SubmitFrom_Descending(d, sel, i + 1)

RECURSIVE SubmitFrom(_, _, _)
SubmitFrom(d, sel, i) ==
    IF i >= NumCourts THEN d
    ELSE IF sel[i] \in {"Team 1", "Team 2"}
         THEN SubmitFrom(process_court_result(d, i, sel[i]), sel, i + 1)
         ELSE SubmitFrom(d, sel, i + 1)

submit_all(d, sel) == SubmitFrom(d, sel, 0)

\* -------------------------------------------------------- initialize_queue
\* random.shuffle can leave the list in any order; the orders explored are
\* the list itself, its rotation by one place and its reversal
Rotate(s, r) == [k \in 1..Len(s) |-> s[((k - 1 + r) % Len(s)) + 1]]

Reverse(s) == [k \in 1..Len(s) |-> s[Len(s) + 1 - k]]

\* a shuffle that loses the first element
Shuffles_DropHead(s) == {Tail(s), Tail(Rotate(s, 1)), Tail(Reverse(s))}

Shuffles(s) == {s, Rotate(s, 1), Reverse(s)}

\* -------------------------------------------------------------- the machine
Install(d) ==
    /\ players' = d.players
    /\ queue'   = d.queue
    /\ courts'  = d.courts
    /\ streaks' = d.streaks
    /\ history' = d.history

Init ==
    /\ players = <<>>
    /\ queue   = <<>>
    /\ courts  = [i \in CourtIdx |-> <<>>]
    /\ streaks = [p \in Pool |-> 0]
    /\ history = <<>>
    /\ last    = [op |-> "start", court |-> 0, team |-> "None", accepted |-> FALSE]
    /\ shuffles = 0

\* "Add / Update Players" with the roster in the text area
AddPlayers ==
    /\ UNCHANGED shuffles
    /\ players = <<>>
    /\ players' = Roster
    /\ queue'   = queue \o Roster
    /\ streaks' = [p \in Pool |-> 0]
    /\ UNCHANGED <<courts, history>>
    /\ last' = [op |-> "AddPlayers", court |-> 0, team |-> "None", accepted |-> TRUE]

InitializeQueue ==
    /\ shuffles < MaxShuffles
    /\ shuffles' = shuffles + 1
    /\ IF players = <<>>
       THEN /\ UNCHANGED <<players, queue, courts, streaks, history>>
            /\ last' = [op |-> "InitializeQueue", court |-> 0, team |-> "None",
                        accepted |-> FALSE]
       ELSE /\ \E s \in Shuffles(players) : queue' = s
            /\ UNCHANGED <<players, courts, streaks, history>>
            /\ last' = [op |-> "InitializeQueue", court |-> 0, team |-> "None",
                        accepted |-> TRUE]

RefillCourt(i) ==
    /\ UNCHANGED shuffles
    /\ Install(assign_court(Data, i))
    /\ last' = [op |-> "RefillCourt", court |-> i, team |-> "None", accepted |-> TRUE]

RefillAll ==
    /\ UNCHANGED shuffles
    /\ Install(assign_all_courts(Data))
    /\ last' = [op |-> "RefillAll", court |-> 0, team |-> "None", accepted |-> TRUE]

ResolveResult(i, team) ==
    /\ UNCHANGED shuffles
    /\ Len(history) < MaxHistory
    /\ Install(process_court_result(Data, i, team))
    /\ last' = [op |-> "ResolveResult", court |-> i, team |-> team,
                accepted |-> ~Rejected(Data, i)]

ResolveAllPending(sel) ==
    /\ UNCHANGED shuffles
    /\ Len(history) + Cardinality({i \in CourtIdx : sel[i] \in Teams}) <= MaxHistory
    /\ Install(submit_all(Data, sel))
    /\ last' = [op |-> "ResolveAllPending", court |-> 0, team |-> "None",
                accepted |-> \E i \in CourtIdx : sel[i] \in Teams]

Next ==
    \/ AddPlayers
    \/ InitializeQueue
    \/ \E i \in CourtIdx : RefillCourt(i)
    \/ RefillAll
    \/ \E i \in CourtIdx, team \in Teams : ResolveResult(i, team)
    \/ \E sel \in [CourtIdx -> Radio] : ResolveAllPending(sel)

\* the operations as the buttons call them
Spec == Init /\ [][Next]_vars

\* process_court_result called with any value of the winner radio
NextAnyTeam ==
    \/ AddPlayers
    \/ InitializeQueue
    \/ \E i \in CourtIdx : RefillCourt(i)
    \/ RefillAll
    \/ \E i \in CourtIdx, team \in Radio : ResolveResult(i, team)
    \/ \E sel \in [CourtIdx -> Radio] : ResolveAllPending(sel)

SpecAnyTeam == Init /\ [][NextAnyTeam]_vars

\* a session in which "Initialize Queue" is never clicked
NextPlay ==
    \/ AddPlayers
    \/ \E i \in CourtIdx : RefillCourt(i)
    \/ RefillAll
    \/ \E i \in CourtIdx, team \in Teams : ResolveResult(i, team)
    \/ \E sel \in [CourtIdx -> Radio] : ResolveAllPending(sel)

SpecPlay == Init /\ [][NextPlay]_vars

\* "Add / Update Players" with the first k names of the roster in the text area
AddRoster(k) ==
    /\ UNCHANGED shuffles
    /\ players = <<>>
    /\ players' = SubSeq(Roster, 1, k)
    /\ queue'   = queue \o SubSeq(Roster, 1, k)
    /\ streaks' = [p \in Pool |-> 0]
    /\ UNCHANGED <<courts, history>>
    /\ last' = [op |-> "AddPlayers", court |-> 0, team |-> "None", accepted |-> TRUE]

\* sessions of every roster size, "Initialize Queue" never clicked
NextRoster ==
    \/ \E k \in 1..NumPlayers : AddRoster(k)
    \/ \E i \in CourtIdx : RefillCourt(i)
    \/ RefillAll
    \/ \E i \in CourtIdx, team \in Teams : ResolveResult(i, team)
    \/ \E sel \in [CourtIdx -> Radio] : ResolveAllPending(sel)

SpecRoster == Init /\ [][NextRoster]_vars

\* ------------------------------------------------------------------ shapes
TypeOK ==
    /\ \A p \in Pool : streaks[p] \in Nat
    /\ \A i \in CourtIdx : Len(courts[i]) <= 4

OnCourts(cs, p) == {i \in CourtIdx : p \in Range(cs[i])}

RECURSIVE SumOcc(_, _, _)
SumOcc(cs, p, i) ==
    IF i >= NumCourts THEN 0 ELSE Occ(cs[i], p) + SumOcc(cs, p, i + 1)

Places(p) == Occ(queue, p) + SumOcc(courts, p, 0)

DataUnchanged == UNCHANGED <<players, queue, courts, streaks, history>>

ResolveStep == last'.op = "ResolveResult"

\* ------------------------------------------------------------------ claims

\* C1: every registered player is in the queue or on one court, exactly once.
\* Stated as the claim has it; initialize_queue rebuilds the queue from the whole
\* registry while courts stay occupied, and assign_court drops the players its
\* streak filter removes without queueing them.
C1_Conservation == \A p \in Range(players) : Places(p) = 1

\* C2: every streak is in 0..MAX_STREAK, a resolved winner below MAX_STREAK
\* gains exactly 1 and a resolved winner at MAX_STREAK ends at 0.
C2_StreakBound ==
    [][ /\ \A p \in Pool : streaks'[p] \in 0..MAX_STREAK
        /\ (ResolveStep /\ last'.accepted) =>
              \A w \in Range(WinnersOf(courts[last'.court], last'.team)) :
                 streaks'[w] = IF streaks[w] < MAX_STREAK THEN streaks[w] + 1 ELSE 0
      ]_vars

C2_Witness ==
    /\ last.op = "ResolveResult" /\ last.accepted
    /\ \E w \in Range(history[Len(history)].winners) :
          streaks[w] = 0 /\ w \in Range(queue)

\* C3: ResolveResult on a court holding fewer than 4 players changes nothing.
C3_ShortCourtNoOp ==
    [][ (ResolveStep /\ Len(courts[last'.court]) # 4) => DataUnchanged ]_vars

C3_Witness ==
    /\ last.op = "ResolveResult" /\ ~last.accepted
    /\ Len(courts[last.court]) = 2

\* C4: ResolveResult with a team that is neither Team 1 nor Team 2 changes
\* nothing. Stated as the claim has it; process_court_result treats every value
\* other than "Team 1" as a win of positions 2-3.
C4_UnknownTeamRejected ==
    [][ (ResolveStep /\ last'.team \notin Teams) => DataUnchanged ]_vars

\* C5: the pick is the queue element at the smallest index among those whose
\* repeat count with the partial court is minimal; with equal counts it is the
\* first element. Checked for every partial court the state offers (the
\* prefixes of each court and its streak-filtered lineup).
PartialCourts ==
    UNION {{SubSeq(courts[i], 1, k) : k \in 0..(IF Len(courts[i]) < 3 THEN Len(courts[i]) ELSE 3)}
             : i \in CourtIdx}
    \cup {FilterStreak(courts[i], streaks) : i \in {j \in CourtIdx :
                                              Len(FilterStreak(courts[j], streaks)) <= 3}}

\* the repeat count of every queue position with the partial court
RepeatsOfQueue(partial) ==
    [k \in 1..Len(queue) |-> count_repeat_matches(partial \o <<queue[k]>>, history)]

\* the smallest index whose count no other index undercuts
FirstMinimalIdx(cnt) ==
    CHOOSE k \in DOMAIN cnt :
        /\ \A j \in DOMAIN cnt : cnt[k] <= cnt[j]
        /\ \A j \in 1..(k - 1) : cnt[j] > cnt[k]

C5_FirstMinimalPick ==
    queue # <<>> =>
      \A partial \in PartialCourts :
         LET cnt  == RepeatsOfQueue(partial)
             pick == BestCandidate(partial, queue, history)
         IN  /\ pick = queue[FirstMinimalIdx(cnt)]
             /\ (\A j \in DOMAIN cnt : cnt[j] = cnt[1]) => pick = queue[1]

\* after a refill or a result, a later candidate strictly beats the head of
\* the queue and ties with another one behind it
C5_Witness ==
    /\ Len(queue) >= 3
    /\ last.op \in {"ResolveResult", "RefillAll", "RefillCourt"}
    /\ \E partial \in PartialCourts :
          LET cnt == RepeatsOfQueue(partial)
              k   == FirstMinimalIdx(cnt)
          IN  /\ k > 1
              /\ \E j \in (k + 1)..Len(queue) : cnt[j] = cnt[k]
              /\ BestCandidate(partial, queue, history) # queue[1]

\* C6: RefillAll in a state where every court holds 4 players and the queue is
\* empty changes nothing. Stated as the claim has it; assign_court drops the
\* players whose streak reached MAX_STREAK and does not queue them.
C6_RefillAllStable ==
    [][ (last'.op = "RefillAll" /\ queue = <<>> /\ \A i \in CourtIdx : Len(courts[i]) = 4)
          => DataUnchanged ]_vars

\* C7: a winner whose streak is MAX_STREAK when the result is resolved is in
\* the queue and not on that court when the call finishes. Stated as the claim
\* has it; the refill of the same call draws from the queue the winner was
\* just appended to.
C7_ForcedRotation ==
    [][ (ResolveStep /\ last'.accepted) =>
          \A w \in Range(WinnersOf(courts[last'.court], last'.team)) :
             streaks[w] = MAX_STREAK =>
                (w \in Range(queue') /\ w \notin Range(courts'[last'.court])) ]_vars

\* what one step may do to the history when the record of court i carries
\* the number i + base
TeamOne(c) == <<c[1], c[2]>>

TeamTwo(c) == <<c[3], c[4]>>

HistoryStep(base) ==
    /\ Len(history') >= Len(history)
    /\ SubSeq(history', 1, Len(history)) = history
    /\ (ResolveStep /\ Len(courts[last'.court]) = 4) =>
          history' = Append(history,
             [court   |-> last'.court + base,
              winners |-> IF last'.team = "Team 1" THEN TeamOne(courts[last'.court])
                                                   ELSE TeamTwo(courts[last'.court]),
              losers  |-> IF last'.team = "Team 1" THEN TeamTwo(courts[last'.court])
                                                   ELSE TeamOne(courts[last'.court])])
    /\ (ResolveStep /\ Len(courts[last'.court]) # 4) => history' = history
    /\ last'.op \in {"AddPlayers", "InitializeQueue", "RefillCourt", "RefillAll"}
          => history' = history

C9_LeaveCourtResets ==
    /\ [](\A p \in Range(queue) : streaks[p] = 0)
    /\ [][ \A p \in Pool :
            (OnCourts(courts, p) # {} /\ OnCourts(courts', p) = {}) => streaks'[p] = 0 ]_vars

\* C10: InitializeQueue with a non-empty registry makes the queue a permutation
\* of the registry and leaves courts, streaks and history alone; with an empty
\* registry it changes nothing.
IsPermutationOf(q, reg) ==
    /\ Len(q) = Len(reg)
    /\ \A p \in Range(q) \cup Range(reg) : Occ(q, p) = Occ(reg, p)

C10_InitializeQueue ==
    [][ last'.op = "InitializeQueue" =>
          IF players = <<>>
          THEN DataUnchanged
          ELSE /\ IsPermutationOf(queue', players)
               /\ UNCHANGED <<players, courts, streaks, history>> ]_vars

\* the queue held something else (players were on court) and is reordered
C10_Witness ==
    /\ last.op = "InitializeQueue" /\ last.accepted
    /\ queue # players
    /\ Len(queue) = NumPlayers
    /\ \E i \in CourtIdx : Len(courts[i]) = 4

\* C11: RefillAll takes the courts in ascending index order: with no history
\* and every court empty, court i receives the queue's elements 4i+1..4i+4 in
\* queue order (fewer where the queue runs out) and the queue keeps the rest in
\* their order.
Slice(q, from, to) == SubSeq(q, from, IF to < Len(q) THEN to ELSE Len(q))

Distinct(l) == \A a, b \in 1..Len(l) : l[a] = l[b] => a = b

Lineup(match) == Range(match.winners \o match.losers)

PairMeetings(l, h) ==
    Cardinality({t \in Range(l) \X Range(l) \X (1..Len(h)) :
                    t[1] < t[2] /\ {t[1], t[2]} \subseteq Lineup(h[t[3]])})

\* the same count by positions, for lists that may repeat a player
PairMeetingsAny(l, h) ==
    Cardinality({t \in PairPositions(l) \X (1..Len(h)) :
        LET a == l[t[1][1]]
            b == l[t[1][2]]
            m == h[t[2]].winners \o h[t[2]].losers
        IN  \E x, y \in 1..Len(m) : x # y /\ m[x] = a /\ m[y] = b})

SampleLists ==
    {<<a, b>> : a \in Pool, b \in Pool}
    \cup UNION {{Slice(courts[i], 1, k), Reverse(Slice(courts[i], 1, k))}
                 : i \in CourtIdx, k \in 0..4}

C13_RepeatCount ==
    \A l \in {x \in SampleLists : Distinct(x)} :
        count_repeat_matches(l, history) = PairMeetings(l, history)

\* a pair that met in two matches, once as partners and once listed in the
\* other order, counts 2
C13_Witness ==
    /\ Len(history) >= 2
    /\ \E a, b \in Pool :
          /\ a # b
          /\ count_repeat_matches(<<a, b>>, history) = 2
          /\ count_repeat_matches(<<b, a>>, history) = 2
          /\ \E m \in 1..Len(history) : history[m].winners = <<a, b>>
          /\ \E m \in 1..Len(history) :
                a \in Range(history[m].winners) /\ b \in Range(history[m].losers)

PreCourt == courts[last'.court]

PreWinners == IF last'.team = "Team 1" THEN TeamOne(PreCourt) ELSE TeamTwo(PreCourt)

PreLosers == IF last'.team = "Team 1" THEN TeamTwo(PreCourt) ELSE TeamOne(PreCourt)

\* the two winners are handled one after the other; the second one's streak
\* is read after the first one's update (they can be the same player)
FirstStays == streaks[PreWinners[1]] < MAX_STREAK

SecondStreak ==
    IF PreWinners[2] = PreWinners[1]
    THEN (IF FirstStays THEN streaks[PreWinners[1]] + 1 ELSE 0)
    ELSE streaks[PreWinners[2]]

SecondStays == SecondStreak < MAX_STREAK

Retained == (IF FirstStays THEN <<PreWinners[1]>> ELSE <<>>)
            \o (IF SecondStays THEN <<PreWinners[2]>> ELSE <<>>)

Capped == (IF FirstStays THEN <<>> ELSE <<PreWinners[1]>>)
          \o (IF SecondStays THEN <<>> ELSE <<PreWinners[2]>>)

Leaving == Capped \o PreLosers

AcceptedResolve == ResolveStep /\ Len(PreCourt) = 4

RemoveAt(q, k) == SubSeq(q, 1, k - 1) \o SubSeq(q, k + 1, Len(q))

\* draw by draw: the first queue position of minimal repeat count joins
RECURSIVE Draw(_, _, _)
Draw(partial, q, h) ==
    IF Len(partial) >= 4 \/ q = <<>> THEN [court |-> partial, queue |-> q]
    ELSE LET cnt == [j \in 1..Len(q) |-> PairMeetingsAny(partial \o <<q[j]>>, h)]
             k   == FirstMinimalIdx(cnt)
         IN  Draw(Append(partial, q[k]), RemoveAt(q, k), h)

\* C15: after an accepted result the retained winners hold the lowest positions
\* of the rebuilt court in their court order and the drawn players follow in
\* the order they were drawn; two retained winners are positions 0-1 whichever
\* team they won as, a single one is position 0.
C15_RebuildOrder ==
    [][ AcceptedResolve =>
          /\ SubSeq(courts'[last'.court], 1, Len(Retained)) = Retained
          /\ courts'[last'.court] = Draw(Retained, queue \o Leaving, history).court ]_vars

\* Team 2 won and its two players now stand at positions 0-1
C15_Witness ==
    /\ last.op = "ResolveResult" /\ last.accepted /\ last.team = "Team 2"
    /\ SubSeq(courts[last.court], 1, 2) = history[Len(history)].winners
    /\ \A w \in Range(history[Len(history)].winners) : streaks[w] >= 1
    /\ Range(history[Len(history)].losers) \subseteq Range(queue)

\* C16: in an accepted result the leaving players go to the tail of the queue
\* behind everyone already queued, capped winners first, then the losers, each
\* in court order, before the first draw; every draw takes one element out and
\* keeps the order of the others.
RECURSIVE IsSubsequence(_, _)
IsSubsequence(a, b) ==
    IF a = <<>> THEN TRUE
    ELSE IF b = <<>> THEN FALSE
    ELSE IF Head(a) = Head(b) THEN IsSubsequence(Tail(a), Tail(b))
    ELSE IsSubsequence(a, Tail(b))

C16_QueueOrder ==
    [][ AcceptedResolve =>
          LET before == queue \o Leaving
              drawn  == 4 - Len(Retained)
          IN  /\ queue' = Draw(Retained, before, history).queue
              /\ IsSubsequence(queue', before)
              /\ Len(queue') = Len(before) - drawn
              /\ \A p \in Pool :
                    Occ(queue', p) + Occ(courts'[last'.court], p)
                      = Occ(before, p) + Occ(Retained, p) ]_vars

\* the two losers stand at the tail behind players who were queued before
\* them, two of whom were drawn
C16_Witness ==
    /\ last.op = "ResolveResult" /\ last.accepted
    /\ Len(queue) >= 4
    /\ SubSeq(queue, Len(queue) - 1, Len(queue)) = history[Len(history)].losers
    /\ \A w \in Range(history[Len(history)].winners) : streaks[w] = 1
    /\ history[Len(history)].losers \notin {SubSeq(courts[last.court], 3, 4)}

\* C17: ResolveResult(i, team) changes no other court's lineup and no streak
\* but those of the four players on court i; ResolveAllPending is ResolveResult
\* applied to the selected courts in ascending index order and leaves the courts
\* without a selection as they are.
RECURSIVE ResolveAscending(_, _, _)
ResolveAscending(d, sel, todo) ==
    IF todo = {} THEN d
    ELSE LET i == CHOOSE x \in todo : \A y \in todo : x <= y
         IN  ResolveAscending(process_court_result(d, i, sel[i]), sel, todo \ {i})

C17_Frame ==
    [][ /\ ResolveStep =>
              /\ \A j \in CourtIdx \ {last'.court} : courts'[j] = courts[j]
              /\ \A p \in Pool \ Range(PreCourt) : streaks'[p] = streaks[p]
        /\ last'.op = "ResolveAllPending" =>
              \E sel \in [CourtIdx -> Radio] :
                 /\ last'.accepted = (\E j \in CourtIdx : sel[j] \in Teams)
                 /\ \A j \in CourtIdx : sel[j] \notin Teams => courts'[j] = courts[j]
                 /\ Len(history') - Len(history)
                       = Cardinality({j \in CourtIdx : sel[j] \in Teams /\ Len(courts[j]) = 4})
                 /\ Data' = ResolveAscending(Data, sel, {i \in CourtIdx : sel[i] \in Teams}) ]_vars

\* both courts were submitted at once: their records stand in index order
C17_Witness ==
    /\ last.op = "ResolveAllPending" /\ last.accepted
    /\ Len(history) = 2
    /\ history[1].court = 1 /\ history[2].court = 2
    /\ \A w \in Range(history[1].winners) \cup Range(history[2].winners) : streaks[w] = 1

\* C18: the court is rebuilt before the record is appended: every drawn player
\* has, against the history as it was before the call, a repeat count no
\* larger than that of any player still available at that draw.
C18_RebuildBeforeLog ==
    [][ AcceptedResolve =>
          \A k \in (Len(Retained) + 1)..4 :
             LET now     == courts'[last'.court]
                 partial == SubSeq(now, 1, k - 1)
                 others  == Range(queue') \cup {now[j] : j \in k..4}
             IN  \A x \in others :
                    PairMeetingsAny(partial \o <<now[k]>>, history)
                       <= PairMeetingsAny(partial \o <<x>>, history) ]_vars

\* a just-beaten loser was drawn next to the retained winners although, with
\* the resolved match counted, a player left in the queue has fewer repeats
C18_Witness ==
    /\ last.op = "ResolveResult" /\ last.accepted
    /\ \E n \in 1..2 :
          LET now     == courts[last.court]
              partial == SubSeq(now, 1, n)
          IN  /\ Range(partial) \subseteq Range(history[Len(history)].winners)
              /\ \A w \in Range(partial) : streaks[w] >= 1
              /\ now[n + 1] \in Range(history[Len(history)].losers)
              /\ \E x \in Range(queue) :
                    PairMeetingsAny(partial \o <<x>>, history)
                       < PairMeetingsAny(partial \o <<now[n + 1]>>, history)

\* C19: an accepted ResolveResult leaves its court with exactly 4 players,
\* whatever the queue holds (an empty queue included) and whatever the streaks.
C19_CourtStaysComplete ==
    [][ AcceptedResolve => Len(courts'[last'.court]) = 4 ]_vars

\* resolved with nobody waiting: the four players were drawn back
C19_Witness ==
    /\ last.op = "ResolveResult" /\ last.accepted
    /\ queue = <<>>
    /\ Len(courts[last.court]) = 4
    /\ \E p \in Range(courts[last.court]) : streaks[p] = 0

\* C20: no court holds more than 4 players, and right after RefillAll a court
\* with fewer than 4 players means the queue is empty.
C20_RefillExhaustsQueue ==
    /\ \A i \in CourtIdx : Len(courts[i]) <= 4
    /\ (last.op = "RefillAll" /\ \E i \in CourtIdx : Len(courts[i]) < 4) => queue = <<>>

\* RefillAll left a court short after using up a non-empty queue
C20_Witness ==
    /\ last.op = "RefillAll"
    /\ queue = <<>>
    /\ \E i \in CourtIdx : Len(courts[i]) \in 1..3
    /\ \E i \in CourtIdx : Len(courts[i]) = 4
====
